---------------------------- MODULE Spec2Model ----------------------------
(***************************************************************************)
(* Meditation timer of Buddha Pages (src/script.js): the countdown state   *)
(* machine, its click / interval / visibility handlers, and the Web Audio  *)
(* host the completion bell is scheduled on.                               *)
(*                                                                         *)
(* Times are integers in milliseconds: `now` is Date.now(), and the audio  *)
(* clock ctx.currentTime (seconds in the source) is kept in milliseconds   *)
(* too, so that currentTime + remaining is audioTime + remaining * 1000.   *)
(* A JavaScript null is the empty sequence, a set value v is <<v>>.        *)
(* Every JavaScript function is an operator from a world record            *)
(*   [ts, dom, host, runs, thrown]                                         *)
(* to the world after the call, so that calls compose in source order.     *)
(***************************************************************************)
EXTENDS Integers, Sequences, FiniteSets

VARIABLES
    timerState,   \* the timerState object of script.js
    dom,          \* toggle button label and the minutes / seconds display
    host,         \* browser side: AudioContext, oscillators, loops, intervals
    now,          \* Date.now(), milliseconds
    runs,         \* history: one record per startTimer() that took effect
    lastOp,       \* history: the handler that ran last, and the state it saw
    budget        \* exploration budget spent by the environment

vars == <<timerState, dom, host, now, runs, lastOp, budget>>

\* ------------------------------------------------------------- bounds
MaxRuns == 2
MaxAdjusts == 1
MaxClockMoves == 2
MaxTickCalls == 1
MaxRequests == 2
MaxHalfSeconds == 10

\* ---------------------------------------------------------- constants
DefaultDuration == 10 * 60
MsPerSecond == 1000
MaxMinutes == 60
MinDuration == 5
SecCarry == 60
SecBorrow == 55
MinDelta == 1
SecDelta == 5
BellSec == 5
StepMs == MsPerSecond + MsPerSecond \div 2
SleepMs == DefaultDuration * MsPerSecond

Null == <<>>
Some(x) == <<x>>
Val(o) == o[1]

Max(a, b) == IF a >= b THEN a ELSE b
Min(a, b) == IF a <= b THEN a ELSE b

\* Math.ceil(a / b) for b > 0 (\div rounds towards minus infinity)
Ceil(a, b) == -((-a) \div b)

\* Number(x) of a nullable timestamp: null converts to 0
ToNumber(o) == IF o = Null THEN 0 ELSE Val(o)

\* ------------------------------------------------------ initial state
InitTimerState ==
    [ duration       |-> DefaultDuration,
      remaining      |-> DefaultDuration,
      endTime        |-> Null,
      isRunning      |-> FALSE,
      interval       |-> Null,
      audioContext   |-> Null,
      keepAliveAudio |-> Null,
      scheduledBell  |-> Null ]

\* The page as served shows 10:00 and a Start button.
InitDom == [ toggle |-> "Start", minutes |-> 10, seconds |-> 0 ]

\* hasAudio: whether window.AudioContext || window.webkitAudioContext exists.
\* audio: state of the one AudioContext ("none" before it is constructed).
\* audioTime: ctx.currentTime.  oscNodes: bell oscillator groups started for
\* a future audio time and not stopped.  resumeThen: runs whose tones wait on
\* ctx.resume().  loops: looping buffer sources playing.  timers: live
\* setInterval handles.
InitHost(a) ==
    [ hasAudio   |-> a,
      audio      |-> "none",
      audioTime  |-> 0,
      oscNodes   |-> {},
      resumeThen |-> <<>>,
      loops      |-> 0,
      timers     |-> {} ]

NoOp == [ op |-> "load", wasRunning |-> FALSE, wasTicked |-> FALSE,
          wasRemaining |-> DefaultDuration, threw |-> FALSE ]

InitBudget == [ adjusts |-> 0, moves |-> 0, calls |-> 0 ]

World == [ ts |-> timerState, dom |-> dom, host |-> host, runs |-> runs,
           thrown |-> FALSE ]

Apply(w) ==
    /\ timerState' = w.ts
    /\ dom' = w.dom
    /\ host' = w.host
    /\ runs' = w.runs

\* Whether tick() has run since the latest startTimer()
Ticked(rs) == rs # <<>> /\ rs[Len(rs)].ticked

Ran(name, w) ==
    lastOp' = [ op |-> name, wasRunning |-> timerState.isRunning,
                wasTicked |-> Ticked(runs),
                wasRemaining |-> timerState.remaining, threw |-> w.thrown ]

\* ------------------------------------------------- history bookkeeping
NewRun == [ chimes |-> 0, fired |-> 0, expired |-> 0, ticked |-> FALSE,
            early |-> FALSE ]
Cur(w) == Len(w.runs)

Bump(w, r, f) ==
    IF r \in DOMAIN w.runs
    THEN [w EXCEPT !.runs[r][f] = @ + 1]
    ELSE w

CountTick(w) ==
    IF Cur(w) \in DOMAIN w.runs
    THEN [w EXCEPT !.runs[Cur(w)].ticked = TRUE]
    ELSE w

\* the user ended the latest run (pause or reset) before the clock reached
\* its endTime
EndedEarly(w0, w, t) ==
    IF /\ w0.ts.isRunning /\ ~w.ts.isRunning
       /\ w0.ts.endTime # Null /\ t < Val(w0.ts.endTime)
       /\ Cur(w) \in DOMAIN w.runs
    THEN [w EXCEPT !.runs[Cur(w)].early = TRUE]
    ELSE w

\* ------------------------------------------------------------ script.js
updateDisplay(w) ==
    [w EXCEPT !.dom.minutes = w.ts.remaining \div 60,
              !.dom.seconds = w.ts.remaining % 60]

\* new AudioContext() throws a TypeError when neither constructor exists;
\* resume() of a suspended context completes later (AudioResumed).
initAudio(w) ==
    IF w.ts.audioContext = Null
    THEN IF w.host.hasAudio
         THEN [w EXCEPT !.ts.audioContext = Some("ctx"),
                        !.host.audio = "running"]
         ELSE [w EXCEPT !.thrown = TRUE]
    ELSE w

startKeepAlive(w) ==
    IF w.ts.keepAliveAudio # Null THEN w
    ELSE IF w.ts.audioContext = Null THEN w
    ELSE [w EXCEPT !.ts.keepAliveAudio = Some("loop"),
                   !.host.loops = @ + 1]

stopKeepAlive(w) ==
    IF w.ts.keepAliveAudio # Null
    THEN [w EXCEPT !.ts.keepAliveAudio = Null,
                   !.host.loops = Max(0, @ - 1)]
    ELSE w

\* osc.stop() on every oscillator the state still references
cancelScheduledBell(w) ==
    IF w.ts.scheduledBell # Null
    THEN [w EXCEPT !.host.oscNodes = @ \ {Val(w.ts.scheduledBell)},
                   !.ts.scheduledBell = Null]
    ELSE w

\* scheduleBell with the bell placed a full duration ahead
scheduleBellAtDuration(w) ==
    IF w.ts.audioContext = Null THEN w
    ELSE LET c == cancelScheduledBell(w)
             bell == [ run |-> Cur(c),
                       at  |-> c.host.audioTime + c.ts.duration * MsPerSecond ]
         IN [c EXCEPT !.host.oscNodes = @ \cup {bell},
                      !.ts.scheduledBell = Some(bell)]

\* The three oscillators of one bell are one node, due at bellTime.
scheduleBell(w) ==
    IF w.ts.audioContext = Null THEN w
    ELSE LET c == cancelScheduledBell(w)
             bell == [ run |-> Cur(c),
                       at  |-> c.host.audioTime + c.ts.remaining * MsPerSecond ]
         IN [c EXCEPT !.host.oscNodes = @ \cup {bell},
                      !.ts.scheduledBell = Some(bell)]

\* _playBellTones: tones starting at ctx.currentTime, heard at once
playBellTones(w, r) == Bump(w, r, "chimes")

playBellNow(w) ==
    IF w.ts.audioContext = Null THEN w
    ELSE IF w.host.audio = "suspended"
    THEN [w EXCEPT !.host.resumeThen = Append(@, Cur(w))]
    ELSE playBellTones(w, Cur(w))

Remaining(endTime, t) == Max(0, Ceil(ToNumber(endTime) - t, MsPerSecond))

\* the expiry branch of tick without its remaining = duration
tickExpireNoReset(w) ==
    LET a == [w EXCEPT !.ts.isRunning = FALSE,
                       !.dom.toggle = "Start",
                       !.host.timers = IF w.ts.interval # Null
                                       THEN @ \ {Val(w.ts.interval)} ELSE @,
                       !.ts.interval = Null]
        b == stopKeepAlive(a)
        c == playBellNow(Bump(Bump(b, Cur(b), "expired"), Cur(b), "fired"))
    IN updateDisplay([c EXCEPT !.ts.scheduledBell = Null])

\* the expiry branch of tick without its toggleBtn.textContent = 'Start'
tickExpireKeepsLabel(w) ==
    LET a == [w EXCEPT !.ts.isRunning = FALSE,
                       !.host.timers = IF w.ts.interval # Null
                                       THEN @ \ {Val(w.ts.interval)} ELSE @,
                       !.ts.interval = Null]
        b == stopKeepAlive(a)
        c == playBellNow(Bump(Bump(b, Cur(b), "expired"), Cur(b), "fired"))
        d == [c EXCEPT !.ts.scheduledBell = Null,
                       !.ts.remaining = c.ts.duration]
    IN updateDisplay(d)

\* the expiry branch of tick without its clearInterval
tickExpireKeepsInterval(w) ==
    LET a == [w EXCEPT !.ts.isRunning = FALSE,
                       !.dom.toggle = "Start"]
        b == stopKeepAlive(a)
        c == playBellNow(Bump(Bump(b, Cur(b), "expired"), Cur(b), "fired"))
        d == [c EXCEPT !.ts.scheduledBell = Null,
                       !.ts.remaining = c.ts.duration]
    IN updateDisplay(d)

tickExpire(w) ==
    LET a == [w EXCEPT !.ts.isRunning = FALSE,
                       !.dom.toggle = "Start",
                       !.host.timers = IF w.ts.interval # Null
                                       THEN @ \ {Val(w.ts.interval)} ELSE @,
                       !.ts.interval = Null]
        b == stopKeepAlive(a)
        c == playBellNow(Bump(Bump(b, Cur(b), "expired"), Cur(b), "fired"))
        d == [c EXCEPT !.ts.scheduledBell = Null,
                       !.ts.remaining = c.ts.duration]
    IN updateDisplay(d)

\* tick without its expiry branch
tickNeverExpires(w, t) ==
    updateDisplay(
        [CountTick(w) EXCEPT !.ts.remaining = Remaining(w.ts.endTime, t)])

\* tick counting heartbeats down instead of reading the clock
tickDecrement(w, t) ==
    LET a == updateDisplay(
                 [CountTick(w) EXCEPT !.ts.remaining = w.ts.remaining - 1])
    IN IF a.ts.remaining <= 0 THEN tickExpire(a) ELSE a

tick(w, t) ==
    LET a == updateDisplay(
                 [CountTick(w) EXCEPT !.ts.remaining = Remaining(w.ts.endTime, t)])
    IN IF a.ts.remaining <= 0 THEN tickExpire(a) ELSE a

\* startTimer counting from the full duration
startTimerFromDuration(w, t) ==
    LET a == initAudio(w)
    IN IF a.thrown THEN a
       ELSE LET b == [a EXCEPT !.ts.isRunning = TRUE,
                               !.ts.endTime = Some(t + a.ts.duration * MsPerSecond),
                               !.dom.toggle = "Pause",
                               !.runs = Append(@, NewRun)]
                c == scheduleBell(startKeepAlive(b))
                id == Cur(c)
            IN [c EXCEPT !.ts.interval = Some(id),
                         !.host.timers = @ \cup {id}]

startTimer(w, t) ==
    LET a == initAudio(w)
    IN IF a.thrown THEN a
       ELSE LET b == [a EXCEPT !.ts.isRunning = TRUE,
                               !.ts.endTime = Some(t + a.ts.remaining * MsPerSecond),
                               !.dom.toggle = "Pause",
                               !.runs = Append(@, NewRun)]
                c == scheduleBell(startKeepAlive(b))
                id == Cur(c)
            IN [c EXCEPT !.ts.interval = Some(id),
                         !.host.timers = @ \cup {id}]

\* stopTimer without its cancelScheduledBell() call
stopTimerWithoutCancel(w) ==
    LET a == [w EXCEPT !.ts.isRunning = FALSE,
                       !.ts.endTime = Null,
                       !.dom.toggle = "Start",
                       !.host.timers = IF w.ts.interval # Null
                                       THEN @ \ {Val(w.ts.interval)} ELSE @,
                       !.ts.interval = Null]
    IN stopKeepAlive(a)

\* stopTimer that also zeroes the countdown
stopTimerClearsRemaining(w) ==
    LET a == [w EXCEPT !.ts.isRunning = FALSE,
                       !.ts.endTime = Null,
                       !.ts.remaining = 0,
                       !.dom.toggle = "Start",
                       !.host.timers = IF w.ts.interval # Null
                                       THEN @ \ {Val(w.ts.interval)} ELSE @,
                       !.ts.interval = Null]
    IN stopKeepAlive(cancelScheduledBell(a))

stopTimer(w) ==
    LET a == [w EXCEPT !.ts.isRunning = FALSE,
                       !.ts.endTime = Null,
                       !.dom.toggle = "Start",
                       !.host.timers = IF w.ts.interval # Null
                                       THEN @ \ {Val(w.ts.interval)} ELSE @,
                       !.ts.interval = Null]
    IN stopKeepAlive(cancelScheduledBell(a))

\* adjustTime that leaves remaining to the countdown
adjustTimeDurationOnly(w, type, delta) ==
    IF w.ts.isRunning THEN w
    ELSE LET mins0 == w.ts.duration \div 60
             secs0 == w.ts.duration % 60
             secs1 == secs0 + delta
             mins == IF type = "min" THEN Max(0, Min(MaxMinutes, mins0 + delta))
                     ELSE IF secs1 >= SecCarry THEN Min(MaxMinutes, mins0 + 1)
                     ELSE IF secs1 < 0 THEN Max(0, mins0 - 1)
                     ELSE mins0
             secs == IF type = "min" THEN secs0
                     ELSE IF secs1 >= SecCarry THEN 0
                     ELSE IF secs1 < 0 THEN SecBorrow
                     ELSE secs1
             newDuration == mins * 60 + secs
         IN IF newDuration >= MinDuration
            THEN updateDisplay([w EXCEPT !.ts.duration = newDuration])
            ELSE w

\* adjustTime without its isRunning test
adjustTimeUnguarded(w, type, delta) ==
    LET mins0 == w.ts.duration \div 60
        secs0 == w.ts.duration % 60
        secs1 == secs0 + delta
        mins == IF type = "min" THEN Max(0, Min(MaxMinutes, mins0 + delta))
                ELSE IF secs1 >= SecCarry THEN Min(MaxMinutes, mins0 + 1)
                ELSE IF secs1 < 0 THEN Max(0, mins0 - 1)
                ELSE mins0
        secs == IF type = "min" THEN secs0
                ELSE IF secs1 >= SecCarry THEN 0
                ELSE IF secs1 < 0 THEN SecBorrow
                ELSE secs1
        newDuration == mins * 60 + secs
    IN IF newDuration >= MinDuration
       THEN updateDisplay([w EXCEPT !.ts.duration = newDuration,
                                    !.ts.remaining = newDuration])
       ELSE w

\* adjustTime whose borrow lands on the last second of the minute
adjustTimeBorrowsToLast(w, type, delta) ==
    IF w.ts.isRunning THEN w
    ELSE LET mins0 == w.ts.duration \div 60
             secs0 == w.ts.duration % 60
             secs1 == secs0 + delta
             mins == IF type = "min" THEN Max(0, Min(MaxMinutes, mins0 + delta))
                     ELSE IF secs1 >= SecCarry THEN Min(MaxMinutes, mins0 + 1)
                     ELSE IF secs1 < 0 THEN Max(0, mins0 - 1)
                     ELSE mins0
             secs == IF type = "min" THEN secs0
                     ELSE IF secs1 >= SecCarry THEN 0
                     ELSE IF secs1 < 0 THEN SecCarry - 1
                     ELSE secs1
             newDuration == mins * 60 + secs
         IN IF newDuration >= MinDuration
            THEN updateDisplay([w EXCEPT !.ts.duration = newDuration,
                                         !.ts.remaining = newDuration])
            ELSE w

adjustTime(w, type, delta) ==
    IF w.ts.isRunning THEN w
    ELSE LET mins0 == w.ts.duration \div 60
             secs0 == w.ts.duration % 60
             secs1 == secs0 + delta
             mins == IF type = "min" THEN Max(0, Min(MaxMinutes, mins0 + delta))
                     ELSE IF secs1 >= SecCarry THEN Min(MaxMinutes, mins0 + 1)
                     ELSE IF secs1 < 0 THEN Max(0, mins0 - 1)
                     ELSE mins0
             secs == IF type = "min" THEN secs0
                     ELSE IF secs1 >= SecCarry THEN 0
                     ELSE IF secs1 < 0 THEN SecBorrow
                     ELSE secs1
             newDuration == mins * 60 + secs
         IN IF newDuration >= MinDuration
            THEN updateDisplay([w EXCEPT !.ts.duration = newDuration,
                                         !.ts.remaining = newDuration])
            ELSE w

\* resetTimer that leaves a running timer alone
resetTimerIdleOnly(w) ==
    IF w.ts.isRunning THEN w
    ELSE LET a == stopTimer(w)
         IN updateDisplay([a EXCEPT !.ts.remaining = a.ts.duration])

\* resetTimer without its remaining = duration
resetTimerKeepsRemaining(w) == updateDisplay(stopTimer(w))

\* resetTimer without its stopTimer() call
resetTimerSkipsStop(w) ==
    updateDisplay([w EXCEPT !.ts.remaining = w.ts.duration])

resetTimer(w) ==
    LET a == stopTimer(w)
    IN updateDisplay([a EXCEPT !.ts.remaining = a.ts.duration])

\* ------------------------------------------------------------- handlers
\* a toggle handler that starts whatever the state
ToggleClickAlwaysStarts ==
    /\ Len(runs) < MaxRuns
    /\ LET w == startTimer(World, now) IN Apply(w) /\ Ran("toggle", w)
    /\ UNCHANGED <<now, budget>>

\* toggleBtn click (startTimer is explored for MaxRuns runs)
ToggleClick ==
    /\ timerState.isRunning \/ Len(runs) < MaxRuns
    /\ LET w == IF timerState.isRunning
                THEN EndedEarly(World, stopTimer(World), now)
                ELSE startTimer(World, now)
       IN Apply(w) /\ Ran("toggle", w)
    /\ UNCHANGED <<now, budget>>

ResetClick ==
    /\ LET w == EndedEarly(World, resetTimer(World), now)
       IN Apply(w) /\ Ran("reset", w)
    /\ UNCHANGED <<now, budget>>

AdjustClick(name, type, delta) ==
    /\ LET w == adjustTime(World, type, delta) IN Apply(w) /\ Ran(name, w)
    /\ UNCHANGED now

MinUpClick == AdjustClick("min-up", "min", MinDelta)
MinDownClick == AdjustClick("min-down", "min", -MinDelta)
SecUpClick == AdjustClick("sec-up", "sec", SecDelta)
SecDownClick == AdjustClick("sec-down", "sec", -SecDelta)

\* a live setInterval handle calls tick()
IntervalFire ==
    /\ \E id \in host.timers :
          LET w == tick(World, now) IN Apply(w) /\ Ran("interval", w)
    /\ UNCHANGED <<now, budget>>

\* tick() called as a function, whatever the state: the callers in
\* script.js (the interval, the visibility handler) only call it while running
TickCall ==
    /\ budget.calls < MaxTickCalls
    /\ LET w == tick(World, now) IN Apply(w) /\ Ran("tick", w)
    /\ budget' = [budget EXCEPT !.calls = @ + 1]
    /\ UNCHANGED now

\* the visibility handler without its tick() call
visibilityHandlerNoTick(w, state, t) ==
    IF state = "visible" /\ w.ts.isRunning THEN initAudio(w) ELSE w

\* the visibility handler without its isRunning test
visibilityHandlerUnguarded(w, state, t) ==
    IF state = "visible" THEN tick(initAudio(w), t) ELSE w

\* document visibilitychange, with the visibilityState the handler reads
visibilityHandler(w, state, t) ==
    IF state = "visible" /\ w.ts.isRunning THEN tick(initAudio(w), t) ELSE w

VisibilityChange ==
    /\ \E state \in {"visible", "hidden"} :
          LET w == visibilityHandler(World, state, now)
          IN Apply(w) /\ Ran(state, w)
    /\ UNCHANGED <<now, budget>>

\* ---------------------------------------------------------- environment
\* Oscillators whose start time the audio clock has reached are heard.
Ring(w, t) ==
    LET due == {n \in w.host.oscNodes : n.at <= t}
    IN [w EXCEPT !.host.audioTime = t,
                 !.host.oscNodes = @ \ due,
                 !.runs = [i \in DOMAIN w.runs |->
                             [w.runs[i] EXCEPT !.chimes =
                                 @ + Cardinality({n \in due : n.run = i})]]]

\* The wall clock moves by d; a running AudioContext's clock moves with it.
Elapse(w, d, audioRuns) ==
    IF w.host.audio = "running"
    THEN IF audioRuns THEN Ring(w, w.host.audioTime + d)
         ELSE [w EXCEPT !.host.audio = "suspended"]
    ELSE w

\* A second and a half passes with the page awake.
Advance ==
    /\ budget.moves < MaxClockMoves
    /\ now' = now + StepMs
    /\ LET w == Elapse(World, StepMs, TRUE) IN Apply(w) /\ Ran("advance", w)
    /\ budget' = [budget EXCEPT !.moves = @ + 1]

\* The screen locks for SleepMs: no callback runs; the OS either keeps the
\* audio session alive or suspends the AudioContext for the whole sleep.
Sleep ==
    /\ budget.moves < MaxClockMoves
    /\ now' = now + SleepMs
    /\ \E audioRuns \in BOOLEAN :
          LET w == Elapse(World, SleepMs, audioRuns)
          IN Apply(w) /\ Ran("sleep", w)
    /\ budget' = [budget EXCEPT !.moves = @ + 1]

\* ctx.resume() completes: the context runs again and the tones queued
\* behind the promise are played.
Resumed(w) ==
    LET q == w.host.resumeThen
        a == [w EXCEPT !.host.audio = "running", !.host.resumeThen = <<>>]
    IN [a EXCEPT !.runs = [i \in DOMAIN a.runs |->
                             [a.runs[i] EXCEPT !.chimes =
                                 @ + Cardinality({k \in DOMAIN q : q[k] = i})]]]

AudioResumed ==
    /\ host.audio = "suspended"
    /\ LET w == Resumed(World) IN Apply(w) /\ Ran("resumed", w)
    /\ UNCHANGED <<now, budget>>

\* -------------------------------------------------------- specifications
Init ==
    /\ timerState = InitTimerState
    /\ dom = InitDom
    /\ \E a \in BOOLEAN : host = InitHost(a)
    /\ now = 0
    /\ runs = <<>>
    /\ lastOp = NoOp
    /\ budget = InitBudget

Adjust == MinUpClick \/ MinDownClick \/ SecUpClick \/ SecDownClick

\* The timer under a moving clock; duration adjustments explored MaxAdjusts deep.
BudgetedAdjust ==
    /\ budget.adjusts < MaxAdjusts
    /\ Adjust
    /\ budget' = [budget EXCEPT !.adjusts = @ + 1]

Next ==
    \/ ToggleClick
    \/ ResetClick
    \/ BudgetedAdjust
    \/ IntervalFire
    \/ VisibilityChange
    \/ Advance
    \/ Sleep
    \/ AudioResumed

Spec == Init /\ [][Next]_vars

\* Every duration the buttons reach, with the clock standing still.
FreeAdjust == Adjust /\ UNCHANGED budget

NextAdjust ==
    \/ ToggleClick
    \/ ResetClick
    \/ FreeAdjust
    \/ IntervalFire
    \/ VisibilityChange

SpecAdjust == Init /\ [][NextAdjust]_vars

\* adjustTime as a function of the configured duration: every duration of
\* the TimerConfig range as the starting value, the four buttons applied.
InitFn ==
    /\ \E d \in MinDuration .. MaxMinutes * 60 :
          /\ timerState = [InitTimerState EXCEPT !.duration = d, !.remaining = d]
          /\ dom = [InitDom EXCEPT !.minutes = d \div 60, !.seconds = d % 60]
    /\ host = InitHost(TRUE)
    /\ now = 0
    /\ runs = <<>>
    /\ lastOp = NoOp
    /\ budget = InitBudget

SpecFn == InitFn /\ [][FreeAdjust]_vars

\* The timer with tick() also callable directly, MaxTickCalls times.
NextTick ==
    \/ ToggleClick
    \/ ResetClick
    \/ IntervalFire
    \/ VisibilityChange
    \/ Advance
    \/ TickCall

SpecTick == Init /\ [][NextTick]_vars

\* The timer with its heartbeat scheduled fairly: while an interval is
\* installed the host keeps calling tick (setInterval), however late.
NextLive ==
    \/ ToggleClick
    \/ ResetClick
    \/ IntervalFire
    \/ VisibilityChange
    \/ Advance
    \/ Sleep
    \/ AudioResumed

\* Weak fairness of the heartbeat, WF_vars(IntervalFire), with ENABLED
\* written out as the guard of IntervalFire (an interval is installed):
\* the interval is cleared infinitely often, or tick keeps taking effect.
HeartbeatFair ==
    \/ []<>(host.timers = {})
    \/ []<><<IntervalFire>>_vars

SpecLive == Init /\ [][NextLive]_vars /\ HeartbeatFair

\* Adjusting a paused timer: every duration the buttons reach (SpecAdjust)
\* as the configured one, then start, ticks under a moving clock, pause
\* and the four adjust buttons.
InitButtons ==
    /\ \E k \in 1 .. (MaxMinutes * 60 + SecBorrow) \div SecDelta :
          LET d == k * SecDelta
          IN /\ timerState = [InitTimerState EXCEPT !.duration = d,
                                                    !.remaining = d]
             /\ dom = [InitDom EXCEPT !.minutes = d \div 60,
                                      !.seconds = d % 60]
    /\ host = InitHost(TRUE)
    /\ now = 0
    /\ runs = <<>>
    /\ lastOp = NoOp
    /\ budget = InitBudget

NextPausedAdjust ==
    \/ ToggleClick
    \/ IntervalFire
    \/ Advance
    \/ BudgetedAdjust

SpecPausedAdjust == InitButtons /\ [][NextPausedAdjust]_vars

\* Start and pause alone, from every duration of the TimerConfig range.
SpecStartStop == InitFn /\ [][ToggleClick]_vars

\* ------------------------------------------- part_000: the WAV variant
\* The variant of part_000 (lines 180-497) bakes the bell into a WAV file,
\* remaining seconds of near-silence and then BellSec seconds of bell,
\* played by an <audio> element from a blob URL.  Under SpecWav timerState
\* and host hold this variant's fields.  A blob URL and its Audio element
\* carry the number of the run that created them.
InitWavState ==
    [ duration      |-> DefaultDuration,
      remaining     |-> DefaultDuration,
      endTime       |-> Null,
      isRunning     |-> FALSE,
      interval      |-> Null,
      timerAudio    |-> Null,
      timerAudioUrl |-> Null ]

\* urls: blob URLs created and not revoked.  audios: the Audio elements
\* created so far, each "playing", "paused" or "ended", with the wall-clock
\* time its playback ends and whether cleanupAudio listens for 'ended'.
InitWavHost == [ urls |-> {}, audios |-> <<>>, timers |-> {} ]

wavCleanupAudio(w) ==
    LET a == IF w.ts.timerAudio # Null
             THEN [w EXCEPT !.host.audios[Val(w.ts.timerAudio)].state =
                                IF @ = "playing" THEN "paused" ELSE @,
                            !.ts.timerAudio = Null]
             ELSE w
    IN IF a.ts.timerAudioUrl # Null
       THEN [a EXCEPT !.host.urls = @ \ {Val(a.ts.timerAudioUrl)},
                      !.ts.timerAudioUrl = Null]
       ELSE a

wavTickExpire(w) ==
    LET a == [w EXCEPT !.ts.isRunning = FALSE,
                       !.dom.toggle = "Start",
                       !.host.timers = IF w.ts.interval # Null
                                       THEN @ \ {Val(w.ts.interval)} ELSE @,
                       !.ts.interval = Null]
        b == IF a.ts.timerAudio # Null
             THEN [a EXCEPT !.host.audios[Val(a.ts.timerAudio)].onEnded = TRUE]
             ELSE a
        c == Bump(b, Cur(b), "expired")
    IN updateDisplay([c EXCEPT !.ts.remaining = c.ts.duration])

wavTick(w, t) ==
    IF ~w.ts.isRunning THEN w
    ELSE LET a == updateDisplay(
                     [CountTick(w) EXCEPT
                         !.ts.remaining = Remaining(w.ts.endTime, t)])
         IN IF a.ts.remaining <= 0 THEN wavTickExpire(a) ELSE a

\* createTimerWav(remaining), new Audio(url), audio.play()
wavStartTimer(w, t) ==
    LET a == [w EXCEPT !.ts.isRunning = TRUE,
                       !.ts.endTime = Some(t + w.ts.remaining * MsPerSecond),
                       !.dom.toggle = "Pause",
                       !.runs = Append(@, NewRun)]
        id == Cur(a)
        audio == [ state   |-> "playing",
                   endsAt  |-> t + (a.ts.remaining + BellSec) * MsPerSecond,
                   onEnded |-> FALSE ]
    IN [a EXCEPT !.host.urls = @ \cup {id},
                 !.host.audios = Append(@, audio),
                 !.ts.timerAudio = Some(id),
                 !.ts.timerAudioUrl = Some(id),
                 !.ts.interval = Some(id),
                 !.host.timers = @ \cup {id}]

wavStopTimer(w, t) ==
    LET a == IF w.ts.isRunning /\ ToNumber(w.ts.endTime) # 0
             THEN [w EXCEPT !.ts.remaining = Remaining(w.ts.endTime, t)]
             ELSE w
        b == [a EXCEPT !.ts.isRunning = FALSE,
                       !.ts.endTime = Null,
                       !.dom.toggle = "Start",
                       !.host.timers = IF a.ts.interval # Null
                                       THEN @ \ {Val(a.ts.interval)} ELSE @,
                       !.ts.interval = Null]
    IN wavCleanupAudio(b)

wavResetTimer(w, t) ==
    LET a == wavStopTimer(w, t)
    IN updateDisplay([a EXCEPT !.ts.remaining = a.ts.duration])

WavToggleClick ==
    /\ timerState.isRunning \/ Len(runs) < MaxRuns
    /\ LET w == IF timerState.isRunning
                THEN EndedEarly(World, wavStopTimer(World, now), now)
                ELSE wavStartTimer(World, now)
       IN Apply(w) /\ Ran("toggle", w)
    /\ UNCHANGED <<now, budget>>

WavResetClick ==
    /\ LET w == EndedEarly(World, wavResetTimer(World, now), now)
       IN Apply(w) /\ Ran("reset", w)
    /\ UNCHANGED <<now, budget>>

WavIntervalFire ==
    /\ \E id \in host.timers :
          LET w == wavTick(World, now) IN Apply(w) /\ Ran("interval", w)
    /\ UNCHANGED <<now, budget>>

\* 'timeupdate' of an Audio element that is playing
WavTimeUpdate ==
    /\ \E i \in DOMAIN host.audios :
          /\ host.audios[i].state = "playing"
          /\ LET w == IF timerState.isRunning THEN wavTick(World, now)
                      ELSE World
             IN Apply(w) /\ Ran("timeupdate", w)
    /\ UNCHANGED <<now, budget>>

WavVisibilityChange ==
    /\ \E state \in {"visible", "hidden"} :
          LET w == IF state = "visible" /\ timerState.isRunning
                   THEN wavTick(World, now) ELSE World
          IN Apply(w) /\ Ran(state, w)
    /\ UNCHANGED <<now, budget>>

\* An Audio element plays to its end: 'ended' is dispatched, and
\* cleanupAudio runs if the expiry branch of tick had attached it.
wavEnded(w, i) ==
    LET a == [w EXCEPT !.host.audios[i].state = "ended"]
    IN IF w.host.audios[i].onEnded THEN wavCleanupAudio(a) ELSE a

WavAudioEnded ==
    /\ \E i \in DOMAIN host.audios :
          /\ host.audios[i].state = "playing"
          /\ now >= host.audios[i].endsAt
          /\ LET w == wavEnded(World, i) IN Apply(w) /\ Ran("ended", w)
    /\ UNCHANGED <<now, budget>>

\* The clock moves by a sleep of SleepMs or by the length of the bell.
WavElapse ==
    /\ budget.moves < MaxClockMoves
    /\ \E d \in {SleepMs, BellSec * MsPerSecond} : now' = now + d
    /\ Apply(World) /\ Ran("elapse", World)
    /\ budget' = [budget EXCEPT !.moves = @ + 1]

InitWav ==
    /\ timerState = InitWavState
    /\ dom = InitDom
    /\ host = InitWavHost
    /\ now = 0
    /\ runs = <<>>
    /\ lastOp = NoOp
    /\ budget = InitBudget

NextWav ==
    \/ WavToggleClick
    \/ WavResetClick
    \/ BudgetedAdjust
    \/ WavIntervalFire
    \/ WavTimeUpdate
    \/ WavVisibilityChange
    \/ WavAudioEnded
    \/ WavElapse

SpecWav == InitWav /\ [][NextWav]_vars

\* ------------------------------------- part_002: the wake-lock variant
\* The variant of part_002 (lines 411-693) holds a screen wake lock while
\* the timer runs.  Under SpecWl timerState and host hold this variant's
\* fields.  A WakeLockSentinel is its index in host.locks.
InitWlState ==
    [ duration     |-> DefaultDuration,
      remaining    |-> DefaultDuration,
      endTime      |-> Null,
      isRunning    |-> FALSE,
      interval     |-> Null,
      audioContext |-> Null,
      wakeLock     |-> Null ]

\* hasWakeLock: 'wakeLock' in navigator.  visible: document.visibilityState.
\* pending: navigator.wakeLock.request() promises not settled yet.
\* requested: requests made so far.  locks: the sentinels granted so far,
\* each held or released.  timers: live setInterval handles.
InitWlHost(h) ==
    [ hasWakeLock |-> h,
      visible     |-> TRUE,
      pending     |-> 0,
      requested   |-> 0,
      locks       |-> <<>>,
      timers      |-> {} ]

\* requestWakeLock() up to its await: request() rejects at once in a hidden
\* document; otherwise the promise settles in a later task (WlLockSettled).
wlRequestWakeLock(w) ==
    IF ~w.host.hasWakeLock THEN w
    ELSE IF ~w.host.visible THEN w
    ELSE [w EXCEPT !.host.pending = @ + 1, !.host.requested = @ + 1]

\* The platform releases sentinel i and fires 'release' at it, which runs
\* the listener requestWakeLock attached: timerState.wakeLock = null.
wlRelease(w, i) ==
    IF w.host.locks[i].held
    THEN [w EXCEPT !.host.locks[i].held = FALSE, !.ts.wakeLock = Null]
    ELSE w

releaseWakeLock(w) ==
    IF w.ts.wakeLock # Null
    THEN [wlRelease(w, Val(w.ts.wakeLock)) EXCEPT !.ts.wakeLock = Null]
    ELSE w

wlInitAudio(w) ==
    IF w.ts.audioContext = Null
    THEN [w EXCEPT !.ts.audioContext = Some("ctx")]
    ELSE w

wlPlayBell(w) ==
    IF w.ts.audioContext = Null THEN w ELSE Bump(w, Cur(w), "fired")

wlTickExpire(w) ==
    LET a == [w EXCEPT !.ts.isRunning = FALSE,
                       !.dom.toggle = "Start",
                       !.host.timers = IF w.ts.interval # Null
                                       THEN @ \ {Val(w.ts.interval)} ELSE @,
                       !.ts.interval = Null]
        b == wlPlayBell(releaseWakeLock(a))
        c == Bump(b, Cur(b), "expired")
    IN updateDisplay([c EXCEPT !.ts.remaining = c.ts.duration])

wlTick(w, t) ==
    IF ~w.ts.isRunning THEN w
    ELSE LET a == updateDisplay(
                     [CountTick(w) EXCEPT
                         !.ts.remaining = Remaining(w.ts.endTime, t)])
         IN IF a.ts.remaining <= 0 THEN wlTickExpire(a) ELSE a

wlStartTimer(w, t) ==
    LET a == wlInitAudio(w)
        b == [a EXCEPT !.ts.isRunning = TRUE,
                       !.ts.endTime = Some(t + a.ts.remaining * MsPerSecond),
                       !.dom.toggle = "Pause",
                       !.runs = Append(@, NewRun)]
        c == wlRequestWakeLock(b)
    IN [c EXCEPT !.ts.interval = Some(Cur(c)),
                 !.host.timers = @ \cup {Cur(c)}]

wlStopTimer(w) ==
    LET a == [w EXCEPT !.ts.isRunning = FALSE,
                       !.ts.endTime = Null,
                       !.dom.toggle = "Start",
                       !.host.timers = IF w.ts.interval # Null
                                       THEN @ \ {Val(w.ts.interval)} ELSE @,
                       !.ts.interval = Null]
    IN releaseWakeLock(a)

wlResetTimer(w) ==
    LET a == wlStopTimer(w)
    IN updateDisplay([a EXCEPT !.ts.remaining = a.ts.duration])

\* Clicks reach the page only while it is visible.
WlToggleClick ==
    /\ host.visible
    /\ timerState.isRunning
          \/ (Len(runs) < MaxRuns /\ host.requested < MaxRequests)
    /\ LET w == IF timerState.isRunning
                THEN EndedEarly(World, wlStopTimer(World), now)
                ELSE wlStartTimer(World, now)
       IN Apply(w) /\ Ran("toggle", w)
    /\ UNCHANGED <<now, budget>>

WlResetClick ==
    /\ host.visible
    /\ LET w == EndedEarly(World, wlResetTimer(World), now)
       IN Apply(w) /\ Ran("reset", w)
    /\ UNCHANGED <<now, budget>>

WlIntervalFire ==
    /\ \E id \in host.timers :
          LET w == wlTick(World, now) IN Apply(w) /\ Ran("interval", w)
    /\ UNCHANGED <<now, budget>>

\* The platform releases every screen wake lock of a document that becomes
\* hidden, before the page's visibilitychange listener runs.
RECURSIVE wlReleaseAll(_, _)
wlReleaseAll(w, i) ==
    IF i = 0 THEN w ELSE wlReleaseAll(wlRelease(w, i), i - 1)

wlVisibilityHandler(w, t) ==
    IF w.host.visible /\ w.ts.isRunning
    THEN wlTick(wlRequestWakeLock(w), t)
    ELSE w

WlVisibilityChange ==
    /\ ~host.visible /\ timerState.isRunning
          => host.requested < MaxRequests
    /\ LET a == [World EXCEPT !.host.visible = ~@]
           b == IF a.host.visible THEN a
                ELSE wlReleaseAll(a, Len(a.host.locks))
           w == wlVisibilityHandler(b, now)
       IN Apply(w) /\ Ran(IF a.host.visible THEN "visible" ELSE "hidden", w)
    /\ UNCHANGED <<now, budget>>

\* A pending request() settles and requestWakeLock resumes after its await:
\* granted, it stores the new sentinel and adds the 'release' listener;
\* rejected (hidden document, low battery), the catch swallows the error.
wlLockSettled(w, granted) ==
    LET a == [w EXCEPT !.host.pending = @ - 1]
    IN IF granted /\ a.host.visible
       THEN [a EXCEPT !.host.locks = Append(@, [held |-> TRUE]),
                      !.ts.wakeLock = Some(Len(a.host.locks) + 1)]
       ELSE a

WlLockSettled ==
    /\ host.pending > 0
    /\ \E granted \in BOOLEAN :
          LET w == wlLockSettled(World, granted)
          IN Apply(w) /\ Ran("settled", w)
    /\ UNCHANGED <<now, budget>>

WlElapse ==
    /\ budget.moves < MaxClockMoves
    /\ \E d \in {StepMs, SleepMs} : now' = now + d
    /\ Apply(World) /\ Ran("elapse", World)
    /\ budget' = [budget EXCEPT !.moves = @ + 1]

InitWl ==
    /\ timerState = InitWlState
    /\ dom = InitDom
    /\ \E h \in BOOLEAN : host = InitWlHost(h)
    /\ now = 0
    /\ runs = <<>>
    /\ lastOp = NoOp
    /\ budget = InitBudget

NextWl ==
    \/ WlToggleClick
    \/ WlResetClick
    \/ BudgetedAdjust
    \/ WlIntervalFire
    \/ WlVisibilityChange
    \/ WlLockSettled
    \/ WlElapse

SpecWl == InitWl /\ [][NextWl]_vars

\* -------------------------- part_001: the decrement timer, side by side
\* The timer of part_001 counts remaining down once per interval callback.
\* Under SpecPair it runs next to the end-timestamp timer of script.js:
\* timerState, dom, host and runs are records with one component per page,
\* `end` for script.js and `dec` for part_001, and both pages receive the
\* same clicks.  Each page's interval fires every MsPerSecond after it was
\* installed; host.phase is the time since the intervals last fired.
InitDecState ==
    [ duration     |-> DefaultDuration,
      remaining    |-> DefaultDuration,
      isRunning    |-> FALSE,
      interval     |-> Null,
      audioContext |-> Null ]

InitDecHost(a) == [ hasAudio |-> a, audio |-> "none", timers |-> {} ]

decInitAudio(w) ==
    IF w.ts.audioContext = Null
    THEN IF w.host.hasAudio
         THEN [w EXCEPT !.ts.audioContext = Some("ctx"),
                        !.host.audio = "running"]
         ELSE [w EXCEPT !.thrown = TRUE]
    ELSE w

decPlayBell(w) ==
    IF w.ts.audioContext = Null THEN w
    ELSE Bump([w EXCEPT !.host.audio = "running"], Cur(w), "chimes")

decStopTimer(w) ==
    [w EXCEPT !.ts.isRunning = FALSE,
              !.dom.toggle = "Start",
              !.host.timers = IF w.ts.interval # Null
                              THEN @ \ {Val(w.ts.interval)} ELSE @,
              !.ts.interval = Null]

\* the interval callback counting two seconds per call
decIntervalDrifts(w) ==
    LET a == updateDisplay(
                 [CountTick(w) EXCEPT !.ts.remaining = w.ts.remaining - 2])
    IN IF a.ts.remaining <= 0
       THEN LET b == decStopTimer(a)
                c == decPlayBell(Bump(Bump(b, Cur(b), "expired"),
                                      Cur(b), "fired"))
            IN updateDisplay([c EXCEPT !.dom.toggle = "Start",
                                       !.ts.remaining = c.ts.duration])
       ELSE a

\* the callback startTimer hands to setInterval
decInterval(w) ==
    LET a == updateDisplay(
                 [CountTick(w) EXCEPT !.ts.remaining = w.ts.remaining - 1])
    IN IF a.ts.remaining <= 0
       THEN LET b == decStopTimer(a)
                c == decPlayBell(Bump(Bump(b, Cur(b), "expired"),
                                      Cur(b), "fired"))
            IN updateDisplay([c EXCEPT !.dom.toggle = "Start",
                                       !.ts.remaining = c.ts.duration])
       ELSE a

decStartTimer(w) ==
    LET a == decInitAudio(w)
    IN IF a.thrown THEN a
       ELSE LET b == [a EXCEPT !.ts.isRunning = TRUE,
                               !.dom.toggle = "Pause",
                               !.runs = Append(@, NewRun)]
            IN [b EXCEPT !.ts.interval = Some(Cur(b)),
                         !.host.timers = @ \cup {Cur(b)}]

\* part_001:126-152 is script.js:243-269 line for line
decAdjustTime(w, type, delta) == adjustTime(w, type, delta)

decResetTimer(w) ==
    LET a == decStopTimer(w)
    IN updateDisplay([a EXCEPT !.ts.remaining = a.ts.duration])

HalfMs == MsPerSecond \div 2

PairEnd == [ ts |-> timerState.end, dom |-> dom.end, host |-> host.end,
             runs |-> runs.end, thrown |-> FALSE ]
PairDec == [ ts |-> timerState.dec, dom |-> dom.dec, host |-> host.dec,
             runs |-> runs.dec, thrown |-> FALSE ]

ApplyPair(e, d, ph) ==
    /\ timerState' = [ end |-> e.ts, dec |-> d.ts ]
    /\ dom' = [ end |-> e.dom, dec |-> d.dom ]
    /\ host' = [ end |-> e.host, dec |-> d.host, phase |-> ph ]
    /\ runs' = [ end |-> e.runs, dec |-> d.runs ]

RanPair(name, e) ==
    lastOp' = [ op |-> name, wasRunning |-> timerState.end.isRunning,
                wasTicked |-> Ticked(runs.end),
                wasRemaining |-> timerState.end.remaining,
                threw |-> e.thrown ]

\* One click on the toggle button of each page; a start installs a new
\* interval, so the next callback is due a full second later.
PairToggleClick ==
    /\ timerState.end.isRunning \/ Len(runs.end) < MaxRuns
    /\ timerState.dec.isRunning \/ Len(runs.dec) < MaxRuns
    /\ LET e == IF timerState.end.isRunning THEN stopTimer(PairEnd)
                ELSE startTimer(PairEnd, now)
           d == IF timerState.dec.isRunning THEN decStopTimer(PairDec)
                ELSE decStartTimer(PairDec)
       IN ApplyPair(e, d, 0) /\ RanPair("toggle", e)
    /\ UNCHANGED <<now, budget>>

PairResetClick ==
    /\ LET e == resetTimer(PairEnd)
           d == decResetTimer(PairDec)
       IN ApplyPair(e, d, 0) /\ RanPair("reset", e)
    /\ UNCHANGED <<now, budget>>

PairAdjustClick ==
    /\ budget.adjusts < MaxAdjusts
    /\ \E b \in { <<"min-up", "min", MinDelta>>, <<"min-down", "min", -MinDelta>>,
                  <<"sec-up", "sec", SecDelta>>, <<"sec-down", "sec", -SecDelta>> } :
          LET e == adjustTime(PairEnd, b[2], b[3])
              d == decAdjustTime(PairDec, b[2], b[3])
          IN ApplyPair(e, d, host.phase) /\ RanPair(b[1], e)
    /\ budget' = [budget EXCEPT !.adjusts = @ + 1]
    /\ UNCHANGED now

\* The tab comes back to the front without having been suspended.  Only
\* script.js listens for visibilitychange (a 'hidden' event runs nothing).
PairVisibilityChange ==
    /\ LET e == visibilityHandler(PairEnd, "visible", now)
       IN ApplyPair(e, PairDec, host.phase) /\ RanPair("visible", e)
    /\ UNCHANGED <<now, budget>>

\* Half a second passes with the page awake and the audio clock running;
\* on every second half the intervals of both pages fire.
PairHalfSecond ==
    /\ budget.moves < MaxHalfSeconds
    /\ now' = now + HalfMs
    /\ LET beat == host.phase + HalfMs = MsPerSecond
           live == host.end.timers # {} \/ host.dec.timers # {}
           e0 == Elapse(PairEnd, HalfMs, TRUE)
           e == IF beat /\ e0.host.timers # {} THEN tick(e0, now + HalfMs)
                ELSE e0
           d == IF beat /\ host.dec.timers # {} THEN decInterval(PairDec)
                ELSE PairDec
           ph == IF beat \/ ~live THEN 0 ELSE HalfMs
       IN ApplyPair(e, d, ph) /\ RanPair(IF beat THEN "beat" ELSE "half", e)
    /\ budget' = [budget EXCEPT !.moves = @ + 1]

\* Both pages configured alike, at one of the durations the buttons reach.
PairDurations == { MinDuration, DefaultDuration }

InitPair ==
    /\ \E d \in PairDurations, a \in BOOLEAN :
          /\ timerState =
                [ end |-> [InitTimerState EXCEPT !.duration = d, !.remaining = d],
                  dec |-> [InitDecState EXCEPT !.duration = d, !.remaining = d] ]
          /\ dom = [ end |-> [InitDom EXCEPT !.minutes = d \div 60,
                                             !.seconds = d % 60],
                     dec |-> [InitDom EXCEPT !.minutes = d \div 60,
                                             !.seconds = d % 60] ]
          /\ host = [ end |-> InitHost(a), dec |-> InitDecHost(a), phase |-> 0 ]
    /\ now = 0
    /\ runs = [ end |-> <<>>, dec |-> <<>> ]
    /\ lastOp = NoOp
    /\ budget = InitBudget

NextPair ==
    \/ PairToggleClick
    \/ PairResetClick
    \/ PairAdjustClick
    \/ PairVisibilityChange
    \/ PairHalfSecond

SpecPair == InitPair /\ [][NextPair]_vars

\* ------------------------------------------------------ shared vocabulary
CurRun == runs[Len(runs)]
HasRun == runs # <<>>
AdjustOps == {"min-up", "min-down", "sec-up", "sec-down"}

\* the last handler called tick()
TickRan ==
    \/ lastOp.op = "interval"
    \/ lastOp.op = "visible" /\ lastOp.wasRunning

\* the clock has reached the end of the latest run
PastEnd == timerState.endTime # Null /\ now >= Val(timerState.endTime)

\* ------------------------------------------------------------------- C1
\* C1: in every run the Running -> Idle expiry transition happens at most
\* once and tick fires the completion signal exactly as often as it expires;
\* a tick that runs once the clock has reached endTime has expired the run,
\* whatever was skipped before it, and no later interval or visibility
\* event expires or fires again.
C1_ExpiryExactlyOnce ==
    /\ \A r \in DOMAIN runs :
          runs[r].expired <= 1 /\ runs[r].fired = runs[r].expired
    /\ (TickRan /\ PastEnd) =>
          ~timerState.isRunning /\ CurRun.expired = 1 /\ CurRun.fired = 1
    /\ (HasRun /\ CurRun.expired = 1) =>
          ~timerState.isRunning /\ host.timers = {}

\* a visibility event arriving after the run has already expired
C1_Witness ==
    /\ HasRun /\ CurRun.expired = 1 /\ CurRun.fired = 1
    /\ lastOp.op = "visible" /\ ~lastOp.wasRunning
    /\ PastEnd /\ ~timerState.isRunning

\* ------------------------------------------------------------------- C2
\* C2: after a tick that leaves the timer running, remaining is
\* max(0, ceil((endTime - now) / 1000)) of the wall clock, however many
\* ticks ran before.
C2_RemainingFromClock ==
    (TickRan /\ timerState.isRunning) =>
        /\ timerState.endTime # Null
        /\ timerState.remaining * MsPerSecond >= Val(timerState.endTime) - now
        /\ (timerState.remaining - 1) * MsPerSecond < Val(timerState.endTime) - now
        /\ timerState.remaining >= 1

\* the first tick of a run after ten minutes of sleep
C2_Witness ==
    /\ TickRan /\ timerState.isRunning /\ ~lastOp.wasTicked
    /\ timerState.remaining * MsPerSecond <=
          timerState.duration * MsPerSecond - SleepMs

\* ------------------------------------------------------------------- C3
\* C3: every run produces at most one perceptible chime.
C3_AtMostOneChime == \A r \in DOMAIN runs : runs[r].chimes <= 1

C5_ExpiryResets ==
    (TickRan /\ PastEnd) =>
        /\ ~timerState.isRunning
        /\ timerState.interval = Null /\ host.timers = {}
        /\ dom.toggle = "Start"
        /\ timerState.remaining = timerState.duration
        /\ dom.minutes = timerState.duration \div 60
        /\ dom.seconds = timerState.duration % 60
        /\ CurRun.fired = 1

\* default duration, start, 600 s pass without a tick, one tick
C5_Witness ==
    /\ Len(runs) = 1 /\ lastOp.op = "interval" /\ ~lastOp.wasTicked
    /\ timerState.duration = DefaultDuration
    /\ now = DefaultDuration * MsPerSecond
    /\ ~timerState.isRunning /\ timerState.remaining = DefaultDuration
    /\ CurRun.fired = 1 /\ CurRun.expired = 1

\* ------------------------------------------------------------------- C6
\* C6: the configured duration is always within [5, 3600] seconds.
C6_DurationInRange ==
    /\ timerState.duration >= MinDuration
    /\ timerState.duration <= MaxMinutes * 60

\* ------------------------------------------------------------------- C7
\* C7: at duration 5 a decrement, and at duration 3600 an increment (of
\* minutes or of seconds), leaves duration and remaining as they were.
C7_BoundaryStable ==
    [][ (/\ ~timerState.isRunning
         /\ \/ /\ timerState.duration = MinDuration
               /\ lastOp'.op \in {"min-down", "sec-down"}
            \/ /\ timerState.duration = MaxMinutes * 60
               /\ lastOp'.op \in {"min-up", "sec-up"})
        => /\ timerState'.duration = timerState.duration
           /\ timerState'.remaining = timerState.remaining ]_vars

C9_AdjustNoOpWhileRunning ==
    [][ (timerState.isRunning /\ lastOp'.op \in AdjustOps)
        => /\ timerState' = timerState
           /\ dom' = dom
           /\ host' = host
           /\ runs' = runs ]_vars

\* an adjust click that arrived mid-run, the countdown already under way
C9_Witness ==
    /\ lastOp.op \in AdjustOps /\ lastOp.wasRunning
    /\ timerState.isRunning
    /\ timerState.remaining < timerState.duration

\* ------------------------------------------------------------------ C10
\* C10 as stated: reset() while running leaves running, endTime, remaining,
\* the heartbeat and the armed bell as they were.
C10_ResetNoOpWhileRunning ==
    [][ (timerState.isRunning /\ lastOp'.op = "reset")
        => /\ timerState' = timerState
           /\ host' = host ]_vars

\* C10 as amended: reset() while running stops the run (not running, endTime
\* null, heartbeat cancelled, bell disarmed, keep-alive loop stopped) and
\* sets remaining, and the display, to duration; duration is unchanged.
C10_ResetStopsRun ==
    [][ (timerState.isRunning /\ lastOp'.op = "reset")
        => /\ ~timerState'.isRunning
           /\ timerState'.endTime = Null
           /\ timerState'.interval = Null /\ host'.timers = {}
           /\ timerState'.scheduledBell = Null
           /\ \A n \in host'.oscNodes : n.run # Len(runs)
           /\ timerState'.keepAliveAudio = Null /\ host'.loops = 0
           /\ timerState'.duration = timerState.duration
           /\ timerState'.remaining = timerState.duration
           /\ dom'.toggle = "Start"
           /\ dom'.minutes = timerState.duration \div 60
           /\ dom'.seconds = timerState.duration % 60 ]_vars

\* a reset click that found the timer running, part of the countdown gone
C10_Witness ==
    /\ lastOp.op = "reset" /\ lastOp.wasRunning /\ lastOp.wasTicked
    /\ ~timerState.isRunning
    /\ timerState.remaining = timerState.duration
    /\ now > 0

\* ------------------------------------------------------------------ C11
\* C11: from any state (idle, paused with remaining < duration, running) a
\* reset leaves exactly what stop() followed by remaining = duration leaves:
\* not running, endTime null, heartbeat cancelled, the state's bell
\* disarmed, remaining == duration, duration unchanged.
C11_ResetIsStopThenRemaining ==
    [][ (lastOp'.op = "reset") =>
          LET s == stopTimer(World)
          IN /\ timerState' = [s.ts EXCEPT !.remaining = timerState.duration]
             /\ host' = s.host
             /\ dom'.toggle = s.dom.toggle
             /\ ~timerState'.isRunning
             /\ timerState'.endTime = Null
             /\ timerState'.interval = Null /\ host'.timers = {}
             /\ timerState'.scheduledBell = Null
             /\ \A n \in host'.oscNodes : n.run # Len(runs) \/ ~timerState.isRunning
             /\ timerState'.remaining = timerState'.duration
             /\ timerState'.duration = timerState.duration ]_vars

\* a reset of a paused timer whose countdown had advanced
C11_Witness ==
    /\ lastOp.op = "reset" /\ ~lastOp.wasRunning
    /\ HasRun /\ CurRun.expired = 0
    /\ lastOp.wasRemaining < timerState.duration
    /\ timerState.remaining = timerState.duration
    /\ ~timerState.isRunning /\ timerState.endTime = Null

\* ------------------------------------------------------------------ C12
\* C12: stop() twice leaves what stop() once leaves, and stop() on an idle
\* timer (never started, or already expired) changes no state and raises
\* no error.  On an idle timer with remaining == duration the reset click
\* is stop() alone: its two further statements rewrite the values present.
C12_StopIdempotentSafe ==
    [][ /\ stopTimer(stopTimer(World)) = stopTimer(World)
        /\ (/\ ~timerState.isRunning
            /\ timerState.remaining = timerState.duration
            /\ lastOp'.op = "reset")
           => /\ timerState' = timerState
              /\ dom' = dom
              /\ host' = host
              /\ runs' = runs
              /\ ~lastOp'.threw ]_vars

\* ------------------------------------------------------------------ C13
\* C13: for every duration d in [5, 3600], idle with remaining == d, a
\* start immediately followed by a stop (no clock advance, no tick between
\* the two clicks) leaves remaining == d and duration == d.
C13_StartStopKeepsRemaining ==
    [][ /\ (/\ ~timerState.isRunning
            /\ timerState.remaining = timerState.duration
            /\ lastOp'.op = "toggle" /\ timerState'.isRunning)
           => /\ timerState'.remaining = timerState.duration
              /\ timerState'.duration = timerState.duration
        /\ (/\ timerState.isRunning /\ lastOp.op = "toggle"
            /\ timerState.remaining = timerState.duration
            /\ lastOp'.op = "toggle")
           => /\ ~timerState'.isRunning
              /\ timerState'.remaining = timerState.duration
              /\ timerState'.duration = timerState.duration ]_vars

\* started and at once paused at the shortest duration of the range
C13_Witness ==
    /\ lastOp.op = "toggle" /\ lastOp.wasRunning /\ ~lastOp.wasTicked
    /\ lastOp.wasRemaining = MinDuration
    /\ ~timerState.isRunning /\ now = 0
    /\ timerState.duration = MinDuration
    /\ timerState.remaining = MinDuration

\* ------------------------------------------------------------------ C14
\* C14 as stated: in every reachable idle state remaining == duration.
C14_IdleRemainingIsDuration ==
    ~timerState.isRunning => timerState.remaining = timerState.duration

\* the latest run was stopped by the user, not by expiry, part-way through
PausedMidRun ==
    /\ HasRun /\ CurRun.expired = 0
    /\ timerState.remaining >= 1
    /\ timerState.remaining < timerState.duration

\* C14 as amended: an idle timer has remaining == duration after page load,
\* after a reset, after an adjustment that changed anything and after
\* expiry; remaining differs from duration only while a run is paused, and
\* is then the value of the last tick, between 1 and duration - 1.
C14_IdleRemainingUnlessPaused ==
    /\ ~timerState.isRunning =>
          (timerState.remaining = timerState.duration \/ PausedMidRun)
    /\ (~HasRun /\ ~timerState.isRunning) =>
          timerState.remaining = timerState.duration
    /\ (lastOp.op = "reset") =>
          timerState.remaining = timerState.duration
    /\ (TickRan /\ ~timerState.isRunning) =>
          timerState.remaining = timerState.duration
    /\ (/\ lastOp.op \in AdjustOps /\ ~lastOp.wasRunning
        /\ timerState.remaining # lastOp.wasRemaining) =>
          timerState.remaining = timerState.duration

\* a pause after the countdown had advanced: idle, remaining below duration
C14_Witness ==
    /\ lastOp.op = "toggle" /\ lastOp.wasRunning /\ lastOp.wasTicked
    /\ ~timerState.isRunning /\ timerState.endTime = Null
    /\ timerState.remaining < timerState.duration
    /\ timerState.remaining = lastOp.wasRemaining

\* ------------------------------------------------------------------ C15
\* C15: a pause of a running timer at wall-clock time t leaves
\* remaining == max(0, ceil((endTime before the pause - t) / 1000)),
\* whether or not a tick ran since the start or since the clock last moved.
C15_StopRecomputesRemaining ==
    [][ (/\ timerState.isRunning /\ timerState.endTime # Null
         /\ lastOp'.op = "toggle")
        => timerState'.remaining = Remaining(timerState.endTime, now) ]_vars

\* ------------------------------------------------------------------ C16
\* C16: in every reachable state endTime is non-null exactly when the
\* timer is running.
C16_EndTimeIffRunning ==
    (timerState.endTime # Null) <=> timerState.isRunning

\* ------------------------------------------------------------------ C17
\* C17: tick() called while the timer is not running (never started,
\* paused, or after expiry) changes neither remaining, duration, isRunning
\* nor the display, and fires no completion signal.
C17_TickNoOpWhenIdle ==
    [][ (~timerState.isRunning /\ lastOp'.op = "tick")
        => /\ timerState'.remaining = timerState.remaining
           /\ timerState'.duration = timerState.duration
           /\ timerState'.isRunning = timerState.isRunning
           /\ dom' = dom
           /\ runs' = runs
           /\ host'.resumeThen = host.resumeThen ]_vars

\* ------------------------------------------------------------------ C18
\* C18: in every reachable idle state, whether reached by stop, reset or
\* expiry, nothing remains armed: the state references no scheduled bell
\* and no pre-scheduled oscillator is still pending on the audio clock.
C18_ArmedOnlyWhileRunning ==
    ~timerState.isRunning =>
        /\ timerState.scheduledBell = Null
        /\ host.oscNodes = {}

\* ------------------------------------------------------------------ C20
\* C20: a run the user paused or reset before its endTime never chimes:
\* its chime count stays zero, tick never fired for it, and nothing of it
\* is left pending on the audio clock or behind ctx.resume(), however far
\* the wall clock and the audio clock advance afterwards.
C20_NoChimeAfterStop ==
    \A r \in DOMAIN runs :
        runs[r].early =>
            /\ runs[r].chimes = 0
            /\ runs[r].fired = 0
            /\ \A n \in host.oscNodes : n.run # r
            /\ \A k \in DOMAIN host.resumeThen : host.resumeThen[k] # r
            /\ (r = Len(runs)) => ~timerState.isRunning

\* a run paused at once, and the audio clock later past the time its bell
\* had been scheduled for
C20_Witness ==
    /\ Len(runs) = 1 /\ runs[1].early /\ runs[1].chimes = 0
    /\ ~timerState.isRunning
    /\ timerState.duration = DefaultDuration /\ budget.adjusts = 0
    /\ host.audio = "running"
    /\ host.audioTime >= DefaultDuration * MsPerSecond
    /\ now >= DefaultDuration * MsPerSecond

\* ------------------------------------------------------------------ C19
\* C19: every blob URL created for a run is revoked once that run is over
\* and its audio has stopped playing: a URL not yet revoked belongs to the
\* latest run or to an Audio element still playing its bell, and when the
\* timer is idle and no timer audio plays any more no URL is left.
C19_ResourcesReleased ==
    /\ \A u \in host.urls :
          u = Len(runs) \/ host.audios[u].state = "playing"
    /\ (/\ ~timerState.isRunning
        /\ \A i \in DOMAIN host.audios : host.audios[i].state # "playing")
       => host.urls = {}

\* ------------------------------------------------------------------ C21
\* C21: a visibility notification that reports the page visible while the
\* timer runs re-derives remaining from endTime and, when the clock has
\* reached endTime, completes the expiry inside the handler (idle, signal
\* fired once, remaining = duration); when the timer is not running the
\* notification changes no timer state.
C21_VisibleCatchesUp ==
    [][ (lastOp'.op = "visible") =>
          IF timerState.isRunning
          THEN IF now >= Val(timerState.endTime)
               THEN /\ ~timerState'.isRunning
                    /\ timerState'.interval = Null /\ host'.timers = {}
                    /\ timerState'.remaining = timerState.duration
                    /\ runs'[Len(runs)].expired = CurRun.expired + 1
                    /\ runs'[Len(runs)].fired = CurRun.fired + 1
               ELSE /\ timerState'.isRunning
                    /\ timerState'.endTime = timerState.endTime
                    /\ timerState'.remaining =
                          Remaining(timerState.endTime, now)
                    /\ dom'.minutes = timerState'.remaining \div 60
                    /\ dom'.seconds = timerState'.remaining % 60
                    /\ runs'[Len(runs)].fired = CurRun.fired
          ELSE /\ timerState' = timerState
               /\ dom' = dom
               /\ host' = host
               /\ runs' = runs ]_vars

\* the page becomes visible after a sleep that outlasted the countdown,
\* and the handler is the first to notice
C21_Witness ==
    /\ lastOp.op = "visible" /\ lastOp.wasRunning /\ ~lastOp.wasTicked
    /\ ~timerState.isRunning
    /\ HasRun /\ CurRun.expired = 1 /\ CurRun.fired = 1
    /\ timerState.remaining = timerState.duration
    /\ now >= timerState.duration * MsPerSecond

\* ------------------------------------------------------------------ C22
\* C22: with the audio subsystem unavailable no handler throws and the
\* timer still counts down: a Start click on an idle timer leaves it
\* running with endTime set and a heartbeat installed.
C22_AudioUnavailableDegrades ==
    [][ (~host.hasAudio /\ ~timerState.isRunning /\ lastOp'.op = "toggle")
        => /\ ~lastOp'.threw
           /\ timerState'.isRunning
           /\ timerState'.endTime # Null
           /\ timerState'.interval # Null
           /\ host'.timers # {} ]_vars

\* ------------------------------------------------------------------ C23
\* the total the button asks for: one minute or five seconds more or less
AskedTotal(op) ==
    timerState.duration +
        (IF op = "min-up" THEN MinDelta * 60
         ELSE IF op = "min-down" THEN -MinDelta * 60
         ELSE IF op = "sec-up" THEN SecDelta
         ELSE -SecDelta)

\* C23: an adjustment of an idle timer that would give a total below 5 s
\* or above 3600 s leaves duration, remaining and the display as they were.
C23_InvalidAdjustRejected ==
    [][ \A op \in AdjustOps :
          (/\ ~timerState.isRunning
           /\ lastOp'.op = op
           /\ \/ AskedTotal(op) < MinDuration
              \/ AskedTotal(op) > MaxMinutes * 60)
          => /\ timerState'.duration = timerState.duration
             /\ timerState'.remaining = timerState.remaining
             /\ dom' = dom ]_vars

\* ------------------------------------------------------------------ C24
\* C24: an adjustment that changes anything leaves remaining == duration,
\* with the display showing it, also when the timer was paused with
\* remaining < duration; it changes nothing but duration, remaining and
\* the display.
C24_AdjustSetsBoth ==
    [][ (/\ lastOp'.op \in AdjustOps
         /\ timerState' # timerState \/ dom' # dom)
        => /\ ~timerState.isRunning
           /\ timerState'.remaining = timerState'.duration
           /\ dom'.minutes = timerState'.duration \div 60
           /\ dom'.seconds = timerState'.duration % 60
           /\ timerState' = [timerState EXCEPT
                                !.duration = timerState'.duration,
                                !.remaining = timerState'.duration]
           /\ dom'.toggle = dom.toggle
           /\ host' = host ]_vars

\* a minute added to a paused timer: the paused progress is replaced
C24_Witness ==
    /\ lastOp.op = "min-up" /\ ~lastOp.wasRunning
    /\ lastOp.wasRemaining < DefaultDuration
    /\ HasRun /\ CurRun.expired = 0
    /\ timerState.duration = DefaultDuration + MinDelta * 60
    /\ timerState.remaining = timerState.duration

\* ------------------------------------------------------------------ C25
\* C25: start takes effect only from idle: a step from a running state to
\* a running state starts no new run and leaves endTime and the heartbeat
\* handle as they were, a new run begins only from an idle state, and at
\* most one heartbeat is installed at any time, the one the state holds.
C25_StartOnlyFromIdle ==
    [][ /\ (timerState.isRunning /\ timerState'.isRunning)
           => /\ timerState'.endTime = timerState.endTime
              /\ timerState'.interval = timerState.interval
              /\ Len(runs') = Len(runs)
        /\ (Len(runs') # Len(runs))
           => /\ ~timerState.isRunning
              /\ Len(runs') = Len(runs) + 1
              /\ lastOp'.op = "toggle"
        /\ Cardinality(host'.timers) <= 1
        /\ timerState'.isRunning
           => host'.timers = {Val(timerState'.interval)} ]_vars

\* a second run under way, started from a pause, one heartbeat installed
C25_Witness ==
    /\ Len(runs) = 2 /\ timerState.isRunning
    /\ Ticked(runs) /\ runs[1].early
    /\ Cardinality(host.timers) = 1

\* ------------------------------------------------------------------ C26
\* C26: a start at time t leaves the timer running with
\* endTime == t + remaining * 1000, remaining being the value held just
\* before the call (the paused value after a pause; duration after a reset,
\* an adjustment or an expiry), and does not change remaining or duration.
C26_StartFromRemaining ==
    [][ (/\ ~timerState.isRunning
         /\ lastOp'.op = "toggle" /\ ~lastOp'.threw)
        => /\ timerState'.isRunning
           /\ timerState'.endTime =
                 Some(now + timerState.remaining * MsPerSecond)
           /\ timerState'.remaining = timerState.remaining
           /\ timerState'.duration = timerState.duration ]_vars

\* a resume from a pause: endTime lies the paused remaining ahead, which
\* is less than the duration
C26_Witness ==
    /\ lastOp.op = "toggle" /\ ~lastOp.wasRunning /\ timerState.isRunning
    /\ Len(runs) = 2 /\ now > 0
    /\ lastOp.wasRemaining < timerState.duration
    /\ timerState.endTime = Some(now + lastOp.wasRemaining * MsPerSecond)

\* ------------------------------------------------------------------ C27
\* C27: at the end of every handler the toggle button reads 'Pause' if
\* and only if the timer is running, and 'Start' otherwise.
C27_LabelReflectsState ==
    /\ dom.toggle \in {"Start", "Pause"}
    /\ (dom.toggle = "Pause") <=> timerState.isRunning

\* the label back at 'Start' after an automatic expiry
C27_Witness ==
    /\ TickRan /\ lastOp.wasRunning /\ ~timerState.isRunning
    /\ HasRun /\ CurRun.expired = 1
    /\ dom.toggle = "Start"

\* ------------------------------------------------------------------ C28
\* the user ended the latest run: a pause or a reset found it running
UserStopped ==
    /\ ~timerState.isRunning
    /\ lastOp.op \in {"toggle", "reset"} /\ lastOp.wasRunning

\* C28: a running timer whose endTime the wall clock has reached, however
\* long no tick ran, is eventually idle with the completion signal fired
\* for that run, unless the user stops it first.
C28_GapAbsorbed ==
    (timerState.isRunning /\ PastEnd)
        ~> (\/ /\ ~timerState.isRunning /\ HasRun
               /\ CurRun.expired = 1 /\ CurRun.fired = 1
               /\ timerState.remaining = timerState.duration
            \/ UserStopped)

\* a run expired by its first tick, ten minutes late
C28_Witness ==
    /\ lastOp.op = "interval" /\ ~lastOp.wasTicked
    /\ ~timerState.isRunning
    /\ HasRun /\ CurRun.expired = 1 /\ CurRun.fired = 1
    /\ now >= timerState.duration * MsPerSecond + SleepMs

\* ------------------------------------------------------------------ C29
\* C29 (WAV variant): while the timer runs, timerAudio and timerAudioUrl
\* refer to the audio and the blob URL created by the latest start, that
\* URL is not revoked and that audio has not been paused.
C29_CurrentAudioIntact ==
    timerState.isRunning =>
        /\ timerState.timerAudio = Some(Len(runs))
        /\ timerState.timerAudioUrl = Some(Len(runs))
        /\ Len(runs) \in host.urls
        /\ host.audios[Len(runs)].state # "paused"

\* ------------------------------------------------------------------ C30
\* C30 (wake-lock variant): once the timer is idle and no wake-lock request
\* is pending, no granted screen wake lock is still held; and while the
\* timer runs, every held lock is the one timerState.wakeLock refers to.
C30_NoLockWhileIdle ==
    /\ (~timerState.isRunning /\ host.pending = 0)
          => \A i \in DOMAIN host.locks : ~host.locks[i].held
    /\ timerState.isRunning
          => \A i \in DOMAIN host.locks :
                host.locks[i].held => timerState.wakeLock = Some(i)

\* ------------------------------------------------------------------ C31
\* C31: at the end of every handler the minutes and seconds shown are
\* floor(remaining / 60) and remaining mod 60 of the current remaining.
C31_DisplayAgrees ==
    /\ dom.minutes = timerState.remaining \div SecCarry
    /\ dom.seconds = timerState.remaining % SecCarry

\* ------------------------------------------------------------------ C32
\* C32: in every reachable state the heartbeat handle is non-null if and
\* only if the timer is running, and the live setInterval timers are
\* exactly that handle: none survives into idle, no running timer lacks one.
C32_HeartbeatIffRunning ==
    /\ (timerState.interval # Null) <=> timerState.isRunning
    /\ host.timers = IF timerState.isRunning
                     THEN {Val(timerState.interval)} ELSE {}

\* idle after an automatic expiry that found the heartbeat installed
C32_Witness ==
    /\ lastOp.op = "interval" /\ lastOp.wasRunning
    /\ ~timerState.isRunning /\ timerState.interval = Null
    /\ host.timers = {}
    /\ HasRun /\ CurRun.expired = 1

\* ------------------------------------------------------------------ C33
\* C33: in every reachable state 0 <= remaining <= duration, and in every
\* reachable idle state remaining >= 1.
C33_RemainingInRange ==
    /\ 0 <= timerState.remaining
    /\ timerState.remaining <= timerState.duration
    /\ ~timerState.isRunning => timerState.remaining >= 1

\* ------------------------------------------------------------------ C34
\* C34: on every duration the buttons reach, sec-up leaves the duration
\* unchanged or raises it by exactly 5, and sec-down leaves it unchanged
\* or lowers it by exactly 5.
C34_SecondsMonotoneExact ==
    [][ /\ lastOp'.op = "sec-up"
           => timerState'.duration \in
                 {timerState.duration, timerState.duration + SecDelta}
        /\ lastOp'.op = "sec-down"
           => timerState'.duration \in
                 {timerState.duration, timerState.duration - SecDelta} ]_vars

\* ------------------------------------------------------------------ C35
\* C35: every duration the buttons reach from 600 is a multiple of 5
\* seconds: its seconds field is one of 0, 5, ..., 55.
C35_MultipleOfFive ==
    /\ timerState.duration % SecDelta = 0
    /\ \E k \in 0 .. (SecBorrow \div SecDelta) :
          timerState.duration % SecCarry = k * SecDelta

\* a borrow: sec-down on a whole minute lands on :55
C35_Witness ==
    /\ lastOp.op = "sec-down" /\ ~lastOp.wasRunning
    /\ lastOp.wasRemaining % SecCarry = 0
    /\ timerState.duration % SecCarry = SecBorrow
    /\ timerState.duration = lastOp.wasRemaining - SecDelta

\* ------------------------------------------------------------------ C36
\* C36: with the interval firing once per elapsed second and no suspension,
\* the decrement timer and the end-timestamp timer, given the same clicks,
\* agree after every step on running, remaining, duration and the page
\* shown, expire on the same callback, and fire the bell once per expiry.
C36_SameTrajectory ==
    /\ timerState.end.isRunning = timerState.dec.isRunning
    /\ timerState.end.remaining = timerState.dec.remaining
    /\ timerState.end.duration = timerState.dec.duration
    /\ dom.end = dom.dec
    /\ Len(runs.end) = Len(runs.dec)
    /\ \A i \in DOMAIN runs.end :
          /\ runs.end[i].expired = runs.dec[i].expired
          /\ runs.end[i].fired = runs.dec[i].fired
          /\ runs.end[i].expired <= 1
          /\ runs.end[i].fired = runs.end[i].expired

\* both timers expired on the same callback, after a pause and a resume
C36_Witness ==
    /\ lastOp.op = "beat" /\ lastOp.wasRunning
    /\ ~timerState.end.isRunning /\ ~timerState.dec.isRunning
    /\ Len(runs.end) = 2
    /\ runs.end[1].ticked /\ runs.end[1].expired = 0
    /\ runs.end[2].expired = 1 /\ runs.dec[2].expired = 1
    /\ runs.end[2].fired = 1 /\ runs.dec[2].fired = 1
    /\ timerState.dec.remaining = timerState.dec.duration

=============================================================================
